---- MODULE Spec2Model ----
(***************************************************************************)
(* The dex pallet (frame/dex/src/lib.rs): a constant-product pool engine.  *)
(* Storage: Pools, NextPoolAssetId; collaborators: the native currency,    *)
(* the registered assets, the pool (share) assets and the block number.    *)
(* Every dispatchable is one action; what it computes is an operator over  *)
(* a storage record, evaluated step by step as the code runs it.           *)
(***************************************************************************)
EXTENDS Integers, Sequences, FiniteSets, TLC

(* ------------------------------------------------------------------ *)
(* Bounds of the model                                                  *)
(* ------------------------------------------------------------------ *)
\* amounts a caller passes are drawn from 0..MaxAmount (and ExampleDeposit)
MaxAmount == 3
\* steps (calls and new blocks) per behaviour
MaxCalls == 4
\* the block number runs from 1 to MaxBlock
MaxBlock == 2
\* largest value of the balance type (stands for u64::MAX / u128::MAX)
MaxBalance == 8388607
\* largest value of the wide domain of the swap formulas (stands for u128::MAX)
MaxU128 == 1073741823
\* what alice and bob hold of each asset at genesis
RichEndowment == 5000
PoorEndowment == 4
\* inputs of the pure-function specification
MathMax == 12
\* swaps per behaviour of the specification of swaps on large amounts
WideCalls == 2

(* ------------------------------------------------------------------ *)
(* Program constants                                                    *)
(* ------------------------------------------------------------------ *)
MIN_LIQUIDITY == 1
\* T::Fee, in tenths of a percent
Fee == 3
\* existential deposit of the native currency and of the assets
ExistentialDeposit == 1

\* MultiAssetId: Native, and the registered assets Asset(1), Asset(2)
Native == 0
Assets == {Native, 1, 2}
Users == {"alice", "bob"}
PalletAccount == "dex"
Accounts == Users \cup {PalletAccount}
\* Option<T>: None is the empty tuple, Some(x) the one-element tuple
None == <<>>
Some(x) == <<x>>
unwrap(o) == o[1]
PoolIds == Assets \X Assets
PoolAssetIds == 0..Cardinality(Assets)
\* the first deposit of the first-deposit example
ExampleDeposit == <<1000, 4000>>

\* Pools, NextPoolAssetId: the pallet's storage; Balances: Currency and Assets;
\* PoolAssetBalances, PoolAssetSupply: PoolAssets; now: the block number;
\* calls: steps taken; last: the last call, its arguments and what it returned;
\* math: the arguments and results of the formulas applied on their own
VARIABLES Pools, NextPoolAssetId, Balances, PoolAssetBalances, PoolAssetSupply,
          now, calls, last, math

vars == <<Pools, NextPoolAssetId, Balances, PoolAssetBalances, PoolAssetSupply,
          now, calls, last, math>>

(* ------------------------------------------------------------------ *)
(* Results                                                              *)
(* ------------------------------------------------------------------ *)
Ok(v) == [ok |-> TRUE, v |-> v, err |-> "Ok"]
Err(e) == [ok |-> FALSE, v |-> 0, err |-> e]

(* ------------------------------------------------------------------ *)
(* Arithmetic                                                           *)
(* ------------------------------------------------------------------ *)
\* u128::saturating_mul in the place of checked_mul
saturating_mul(a, b) ==
  IF a = 0 \/ b = 0 THEN Ok(0)
  ELSE IF a > MaxU128 \div b THEN Ok(MaxU128)
  ELSE Ok(a * b)

\* u128::checked_mul
checked_mul(a, b) ==
  IF a = 0 \/ b = 0 THEN Ok(0)
  ELSE IF a > MaxU128 \div b THEN Err("Overflow")
  ELSE Ok(a * b)

\* u128::checked_add
checked_add(a, b) == IF a > MaxU128 - b THEN Err("Overflow") ELSE Ok(a + b)

\* u128::checked_sub
checked_sub(a, b) == IF a < b THEN Err("Overflow") ELSE Ok(a - b)

\* u128::checked_div
checked_div(a, b) == IF b = 0 THEN Err("Overflow") ELSE Ok(a \div b)

\* u128 -> AssetBalance (try_into)
try_into(r) == IF r > MaxBalance THEN Err("Overflow") ELSE Ok(r)

\* AssetBalance::checked_mul
balance_checked_mul(a, b) ==
  IF a = 0 \/ b = 0 THEN Ok(0)
  ELSE IF a > MaxBalance \div b THEN Err("Overflow")
  ELSE Ok(a * b)

\* unchecked + and - of the balance type: they wrap
WrapAdd(a, b) == (a + b) % (MaxBalance + 1)
WrapSub(a, b) == (a - b + MaxBalance + 1) % (MaxBalance + 1)

RECURSIVE SqrtIter(_, _, _)
SqrtIter(n, lo, hi) ==
  \* largest r in lo..hi with r*r <= n, by bisection
  IF lo >= hi THEN lo
  ELSE LET mid == (lo + hi + 1) \div 2
       IN IF mid <= n \div mid THEN SqrtIter(n, mid, hi) ELSE SqrtIter(n, lo, mid - 1)

integer_sqrt(n) == IF n = 0 THEN 0 ELSE SqrtIter(n, 1, n)

Min(a, b) == IF a <= b THEN a ELSE b

\* mul_div rounding up
mul_div_up(a, b, c) ==
  IF c = 0 THEN Err("Overflow") ELSE try_into((a * b + c - 1) \div c)

mul_div(a, b, c) ==
  \* multiply_by_rational_with_rounding(a, b, c, Rounding::Down), then try_into
  IF c = 0 THEN Err("Overflow") ELSE try_into((a * b) \div c)

\* quote with the two reserves taken for each other
quote_inverse(amount, reserve1, reserve2) == mul_div(amount, reserve1, reserve2)

quote(amount, reserve1, reserve2) == mul_div(amount, reserve2, reserve1)

\* get_amount_out with the fee left out of the input
get_amount_out_no_fee(amount_in, reserve_in, reserve_out) ==
  IF reserve_in = 0 \/ reserve_out = 0 THEN Err("InsufficientLiquidity")
  ELSE LET amount_in_with_fee == checked_mul(amount_in, 1000) IN
       IF ~amount_in_with_fee.ok THEN Err("Overflow")
       ELSE LET numerator == checked_mul(amount_in_with_fee.v, reserve_out)
                den1 == checked_mul(reserve_in, 1000)
            IN IF ~numerator.ok \/ ~den1.ok THEN Err("Overflow")
               ELSE LET denominator == checked_add(den1.v, amount_in_with_fee.v) IN
                    IF ~denominator.ok THEN Err("Overflow")
                    ELSE LET result == checked_div(numerator.v, denominator.v) IN
                         IF ~result.ok THEN Err("Overflow") ELSE try_into(result.v)

get_amount_out(amount_in, reserve_in, reserve_out) ==
  IF reserve_in = 0 \/ reserve_out = 0 THEN Err("InsufficientLiquidity")
  ELSE LET amount_in_with_fee == checked_mul(amount_in, 1000 - Fee) IN
       IF ~amount_in_with_fee.ok THEN Err("Overflow")
       ELSE LET numerator == checked_mul(amount_in_with_fee.v, reserve_out)
                den1 == checked_mul(reserve_in, 1000)
            IN IF ~numerator.ok \/ ~den1.ok THEN Err("Overflow")
               ELSE LET denominator == checked_add(den1.v, amount_in_with_fee.v) IN
                    IF ~denominator.ok THEN Err("Overflow")
                    ELSE LET result == checked_div(numerator.v, denominator.v) IN
                         IF ~result.ok THEN Err("Overflow") ELSE try_into(result.v)

\* get_amount_in without the final checked_add(One::one())
get_amount_in_floor(amount_out, reserve_in, reserve_out) ==
  IF reserve_in = 0 \/ reserve_out = 0 THEN Err("InsufficientLiquidity")
  ELSE LET num1 == checked_mul(reserve_in, amount_out) IN
       IF ~num1.ok THEN Err("Overflow")
       ELSE LET numerator == checked_mul(num1.v, 1000)
                den1 == checked_sub(reserve_out, amount_out)
            IN IF ~numerator.ok \/ ~den1.ok THEN Err("Overflow")
               ELSE LET denominator == checked_mul(den1.v, 1000 - Fee) IN
                    IF ~denominator.ok THEN Err("Overflow")
                    ELSE LET q == checked_div(numerator.v, denominator.v) IN
                         IF ~q.ok THEN Err("Overflow") ELSE try_into(q.v)

get_amount_in(amount_out, reserve_in, reserve_out) ==
  IF reserve_in = 0 \/ reserve_out = 0 THEN Err("InsufficientLiquidity")
  ELSE LET num1 == checked_mul(reserve_in, amount_out) IN
       IF ~num1.ok THEN Err("Overflow")
       ELSE LET numerator == checked_mul(num1.v, 1000)
                den1 == checked_sub(reserve_out, amount_out)
            IN IF ~numerator.ok \/ ~den1.ok THEN Err("Overflow")
               ELSE LET denominator == checked_mul(den1.v, 1000 - Fee) IN
                    IF ~denominator.ok THEN Err("Overflow")
                    ELSE LET q == checked_div(numerator.v, denominator.v) IN
                         IF ~q.ok THEN Err("Overflow")
                         ELSE LET result == checked_add(q.v, 1) IN
                              IF ~result.ok THEN Err("Overflow") ELSE try_into(result.v)

\* MultiAssetId's order: Native first, then the registered assets by id
AssetLe(a, b) == a <= b

\* get_pool_id returning the assets in the order given
get_pool_id_unsorted(asset1, asset2) == <<asset1, asset2>>

get_pool_id(asset1, asset2) ==
  IF AssetLe(asset1, asset2) THEN <<asset1, asset2>> ELSE <<asset2, asset1>>

validate_swap(asset_from, amount_out, pool_id, reserve1, reserve2) ==
  IF asset_from = pool_id[1]
  THEN IF amount_out < reserve2 THEN Ok(<<pool_id[2], amount_out>>)
       ELSE Err("InsufficientLiquidity")
  ELSE IF amount_out < reserve1 THEN Ok(<<pool_id[1], amount_out>>)
       ELSE Err("InsufficientLiquidity")

(* ------------------------------------------------------------------ *)
(* Storage and the collaborators' ledgers                               *)
(* ------------------------------------------------------------------ *)
Storage ==
  [Pools |-> Pools, NextPoolAssetId |-> NextPoolAssetId, Balances |-> Balances,
   PoolAssetBalances |-> PoolAssetBalances, PoolAssetSupply |-> PoolAssetSupply]

Done(s) == [ok |-> TRUE, err |-> "Ok", s |-> s]
Failed(s, e) == [ok |-> FALSE, err |-> e, s |-> s]

\* Currency::transfer / Assets::transfer: a failed transfer moves nothing
LedgerTransfer(bal, from, to, amount, keep_alive) ==
  IF bal[from] < amount THEN Err("BalanceLow")
  ELSE IF keep_alive /\ amount > 0 /\ bal[from] - amount < ExistentialDeposit
       THEN Err("KeepAlive")
  ELSE IF from = to \/ amount = 0 THEN Ok(bal)
  ELSE IF bal[to] > MaxBalance - amount THEN Err("Overflow")
  ELSE Ok([bal EXCEPT ![from] = @ - amount, ![to] = @ + amount])

transfer(s, asset_id, from, to, amount, keep_alive) ==
  LET r == LedgerTransfer(s.Balances[asset_id], from, to, amount, keep_alive) IN
  IF r.ok THEN Done([s EXCEPT !.Balances[asset_id] = r.v]) ELSE Failed(s, r.err)

\* PoolAssets::transfer
PoolAssets_transfer(s, id, from, to, amount, keep_alive) ==
  LET r == LedgerTransfer(s.PoolAssetBalances[id], from, to, amount, keep_alive) IN
  IF r.ok THEN Done([s EXCEPT !.PoolAssetBalances[id] = r.v]) ELSE Failed(s, r.err)

\* PoolAssets::mint_into
PoolAssets_mint_into(s, id, who, amount) ==
  IF s.PoolAssetSupply[id] > MaxBalance - amount THEN Failed(s, "Overflow")
  ELSE Done([s EXCEPT !.PoolAssetSupply[id] = @ + amount,
                      !.PoolAssetBalances[id][who] = @ + amount])

\* PoolAssets::burn_from
PoolAssets_burn_from(s, id, who, amount) ==
  IF s.PoolAssetBalances[id][who] < amount THEN Failed(s, "BalanceLow")
  ELSE Done([s EXCEPT !.PoolAssetSupply[id] = @ - amount,
                      !.PoolAssetBalances[id][who] = @ - amount])

\* PoolAssets::total_issuance
total_issuance(s, id) == s.PoolAssetSupply[id]

\* PoolAssetId::initial_value and PoolAssetId::increment
initial_value == 0
increment(id) == id + 1

(* ------------------------------------------------------------------ *)
(* What a dispatchable hands back: the storage as its last executed     *)
(* step left it, the result, the number of transfer / mint / burn steps *)
(* executed, the amounts moved and the amounts of the deposited event.  *)
(* ------------------------------------------------------------------ *)
Ret(s, res, effects, amount1, amount2, lp, ev) ==
  [s |-> s, res |-> res, effects |-> effects, amount1 |-> amount1,
   amount2 |-> amount2, lp |-> lp, ev |-> ev]

NoEvent == <<0, 0>>

\* Pools::try_mutate finding the entry by the first asset of the id alone
try_mutate_by_first(s, pool_id, pool) ==
  [s EXCEPT !.Pools = [id \in PoolIds |->
     IF id[1] = pool_id[1] /\ s.Pools[id] # None THEN Some(pool) ELSE s.Pools[id]]]

\* Pools::take in the place of Pools::try_mutate
try_mutate_take(s, pool_id, pool) == [s EXCEPT !.Pools[pool_id] = None]

\* Pools::try_mutate: the closure's changes to the entry are written on Ok only
try_mutate(s, pool_id, pool) == [s EXCEPT !.Pools[pool_id] = Some(pool)]

\* the deadline check letting the block before through
deadline_ok_late(deadline, block_number) == deadline + 1 >= block_number

\* ensure!(deadline >= now, DeadlinePassed) (lib.rs 293, 397, 471, 535)
deadline_ok(deadline, block_number) == deadline >= block_number

\* allocate_lp_token without NextPoolAssetId::set
allocate_lp_token_stale(s) ==
  LET lp_token == IF s.NextPoolAssetId = None THEN initial_value
                  ELSE unwrap(s.NextPoolAssetId)
  IN [lp_token |-> lp_token, s |-> s]

\* the next share-token id: read, incremented and stored (lib.rs 245-248)
allocate_lp_token(s) ==
  LET lp_token == IF s.NextPoolAssetId = None THEN initial_value
                  ELSE unwrap(s.NextPoolAssetId)
      next_lp_token_id == increment(lp_token)
  IN [lp_token |-> lp_token, s |-> [s EXCEPT !.NextPoolAssetId = Some(next_lp_token_id)]]

(* ------------------------------------------------------------------ *)
(* create_pool                                                          *)
(* ------------------------------------------------------------------ *)
\* create_pool without the check that the first asset of the id is the native one
create_pool_any_pair(s, sender, a1, a2) ==
  LET pool_id == get_pool_id(a1, a2)
      alloc == allocate_lp_token(s)
      pool_info == [owner |-> sender, lp_token |-> alloc.lp_token, asset1 |-> pool_id[1],
                    asset2 |-> pool_id[2], balance1 |-> 0, balance2 |-> 0]
  IN IF a1 = a2 THEN Ret(s, "EqualAssets", 0, 0, 0, 0, NoEvent)
     ELSE IF s.Pools[pool_id] # None THEN Ret(s, "PoolExists", 0, 0, 0, 0, NoEvent)
     ELSE Ret([alloc.s EXCEPT !.Pools[pool_id] = Some(pool_info)], "Ok", 0, 0, 0,
              alloc.lp_token, NoEvent)

\* create_pool testing the first argument, not the first asset of the id
create_pool_first_argument(s, sender, a1, a2) ==
  LET pool_id == get_pool_id(a1, a2)
      alloc == allocate_lp_token(s)
      pool_info == [owner |-> sender, lp_token |-> alloc.lp_token, asset1 |-> pool_id[1],
                    asset2 |-> pool_id[2], balance1 |-> 0, balance2 |-> 0]
  IN IF a1 = a2 THEN Ret(s, "EqualAssets", 0, 0, 0, 0, NoEvent)
     ELSE IF a1 # Native THEN Ret(s, "PoolMustContainNativeCurrency", 0, 0, 0, 0, NoEvent)
     ELSE IF s.Pools[pool_id] # None THEN Ret(s, "PoolExists", 0, 0, 0, 0, NoEvent)
     ELSE Ret([alloc.s EXCEPT !.Pools[pool_id] = Some(pool_info)], "Ok", 0, 0, 0,
              alloc.lp_token, NoEvent)

create_pool(s, sender, a1, a2) ==
  LET pool_id == get_pool_id(a1, a2)
      asset1 == pool_id[1]
      asset2 == pool_id[2]
      alloc == allocate_lp_token(s)
      lp_token == alloc.lp_token
      s1 == alloc.s
      pool_info == [owner |-> sender, lp_token |-> lp_token, asset1 |-> asset1,
                    asset2 |-> asset2, balance1 |-> 0, balance2 |-> 0]
      s2 == [s1 EXCEPT !.Pools[pool_id] = Some(pool_info)]
  IN IF a1 = a2 THEN Ret(s, "EqualAssets", 0, 0, 0, 0, NoEvent)
     ELSE IF asset1 # Native THEN Ret(s, "PoolMustContainNativeCurrency", 0, 0, 0, 0, NoEvent)
     ELSE IF s.Pools[pool_id] # None THEN Ret(s, "PoolExists", 0, 0, 0, 0, NoEvent)
     ELSE Ret(s2, "Ok", 0, 0, 0, lp_token, NoEvent)

(* ------------------------------------------------------------------ *)
(* add_liquidity                                                        *)
(* ------------------------------------------------------------------ *)
\* add_liquidity_amounts quoting amount1_optimal with the reserves in the order of
\* the first quote
add_liquidity_amounts_same_order(reserve1, reserve2, amount1_desired, amount2_desired, amount1_min, amount2_min) ==
  IF reserve1 = 0 /\ reserve2 = 0 THEN Ok(<<amount1_desired, amount2_desired>>)
  ELSE LET amount2_optimal == quote(amount1_desired, reserve1, reserve2) IN
       IF ~amount2_optimal.ok THEN Err(amount2_optimal.err)
       ELSE IF amount2_optimal.v <= amount2_desired
            THEN IF amount2_optimal.v >= amount2_min
                 THEN Ok(<<amount1_desired, amount2_optimal.v>>)
                 ELSE Err("InsufficientAmountParam2")
            ELSE LET amount1_optimal == quote(amount2_desired, reserve1, reserve2) IN
                 IF ~amount1_optimal.ok THEN Err(amount1_optimal.err)
                 ELSE IF ~(amount1_optimal.v <= amount1_desired)
                      THEN Err("OptimalAmountLessThanDesired")
                 ELSE IF ~(amount1_optimal.v >= amount1_min)
                      THEN Err("InsufficientAmountParam1")
                 ELSE Ok(<<amount1_optimal.v, amount2_desired>>)

\* the amounts a deposit uses (lib.rs 304-330): Ok(<<amount1, amount2>>) or the error
add_liquidity_amounts(reserve1, reserve2, amount1_desired, amount2_desired, amount1_min, amount2_min) ==
  IF reserve1 = 0 /\ reserve2 = 0 THEN Ok(<<amount1_desired, amount2_desired>>)
  ELSE LET amount2_optimal == quote(amount1_desired, reserve1, reserve2) IN
       IF ~amount2_optimal.ok THEN Err(amount2_optimal.err)
       ELSE IF amount2_optimal.v <= amount2_desired
            THEN IF amount2_optimal.v >= amount2_min
                 THEN Ok(<<amount1_desired, amount2_optimal.v>>)
                 ELSE Err("InsufficientAmountParam2")
            ELSE LET amount1_optimal == quote(amount2_desired, reserve2, reserve1) IN
                 IF ~amount1_optimal.ok THEN Err(amount1_optimal.err)
                 ELSE IF ~(amount1_optimal.v <= amount1_desired)
                      THEN Err("OptimalAmountLessThanDesired")
                 ELSE IF ~(amount1_optimal.v >= amount1_min)
                      THEN Err("InsufficientAmountParam1")
                 ELSE Ok(<<amount1_optimal.v, amount2_desired>>)

\* first_lp_token_amount without the checked_sub(MIN_LIQUIDITY)
first_lp_token_amount_whole(amount1, amount2) ==
  LET product == balance_checked_mul(amount1, amount2) IN
  IF ~product.ok THEN Err("Overflow") ELSE Ok(integer_sqrt(product.v))

\* the share tokens of a first deposit (lib.rs 341-346)
first_lp_token_amount(amount1, amount2) ==
  LET product == balance_checked_mul(amount1, amount2) IN
  IF ~product.ok THEN Err("Overflow")
  ELSE checked_sub(integer_sqrt(product.v), MIN_LIQUIDITY)

\* later_lp_token_amount taking the larger of the two sides
later_lp_token_amount_max(amount1, amount2, total_supply, reserve1, reserve2) ==
  LET side1 == mul_div(amount1, total_supply, reserve1)
      side2 == mul_div(amount2, total_supply, reserve2)
  IN IF ~side1.ok THEN Err(side1.err)
     ELSE IF ~side2.ok THEN Err(side2.err)
     ELSE Ok(IF side1.v >= side2.v THEN side1.v ELSE side2.v)

\* the share tokens of a later deposit (lib.rs 349-351)
later_lp_token_amount(amount1, amount2, total_supply, reserve1, reserve2) ==
  LET side1 == mul_div(amount1, total_supply, reserve1)
      side2 == mul_div(amount2, total_supply, reserve2)
  IN IF ~side1.ok THEN Err(side1.err)
     ELSE IF ~side2.ok THEN Err(side2.err)
     ELSE Ok(Min(side1.v, side2.v))

\* add_reserves writing to a copy of the entry
add_reserves_lost(pool, amount1, amount2) == pool

\* pool.balance1 = reserve1 + amount1; pool.balance2 = reserve2 + amount2 (lib.rs 361-362)
add_reserves(pool, amount1, amount2) ==
  [pool EXCEPT !.balance1 = WrapAdd(@, amount1), !.balance2 = WrapAdd(@, amount2)]

add_liquidity(s, sender, a1, a2, amount1_desired, amount2_desired, amount1_min, amount2_min, mint_to, deadline, keep_alive, block_number) ==
  LET pool_id == get_pool_id(a1, a2)
      asset1 == pool_id[1]
      asset2 == pool_id[2]
      pool == unwrap(s.Pools[pool_id])
      reserve1 == pool.balance1
      reserve2 == pool.balance2
      amounts == add_liquidity_amounts(reserve1, reserve2, amount1_desired,
                                       amount2_desired, amount1_min, amount2_min)
      amount1 == amounts.v[1]
      amount2 == amounts.v[2]
      t1 == transfer(s, asset1, sender, PalletAccount, amount1, keep_alive)
      t2 == transfer(t1.s, asset2, sender, PalletAccount, amount2, keep_alive)
      total_supply == total_issuance(t2.s, pool.lp_token)
      first == total_supply = 0
      lp_token_amount == IF first THEN first_lp_token_amount(amount1, amount2)
                         ELSE later_lp_token_amount(amount1, amount2, total_supply,
                                                    reserve1, reserve2)
      \* the dust of a first deposit goes to the pallet's account
      m1 == IF first THEN PoolAssets_mint_into(t2.s, pool.lp_token, PalletAccount,
                                               MIN_LIQUIDITY)
            ELSE Done(t2.s)
      n1 == IF first THEN 3 ELSE 2
      m2 == PoolAssets_mint_into(m1.s, pool.lp_token, mint_to, lp_token_amount.v)
      s_ok == try_mutate(m2.s, pool_id, add_reserves(pool, amount1, amount2))
      Fail(st, e, n) == Ret(st, e, n, 0, 0, 0, NoEvent)
  IN IF ~(amount1_desired > 0 /\ amount2_desired > 0) THEN Fail(s, "WrongDesiredAmount", 0)
     ELSE IF ~deadline_ok(deadline, block_number) THEN Fail(s, "DeadlinePassed", 0)
     ELSE IF s.Pools[pool_id] = None THEN Fail(s, "PoolNotFound", 0)
     ELSE IF ~amounts.ok THEN Fail(s, amounts.err, 0)
     ELSE IF ~t1.ok THEN Fail(t1.s, t1.err, 0)
     ELSE IF ~t2.ok THEN Fail(t2.s, t2.err, 1)
     ELSE IF ~lp_token_amount.ok THEN Fail(t2.s, lp_token_amount.err, 2)
     ELSE IF ~m1.ok THEN Fail(m1.s, m1.err, 2)
     ELSE IF ~(lp_token_amount.v > MIN_LIQUIDITY)
          THEN Fail(m1.s, "InsufficientLiquidityMinted", n1)
     ELSE IF ~m2.ok THEN Fail(m2.s, m2.err, n1)
     ELSE Ret(s_ok, "Ok", n1 + 1, amount1, amount2, lp_token_amount.v,
              <<amount1, amount2>>)

(* ------------------------------------------------------------------ *)
(* remove_liquidity                                                     *)
(* ------------------------------------------------------------------ *)
\* remove_liquidity_amounts without the is_zero checks
remove_liquidity_amounts_zero(lp_token_burn, reserve1, reserve2, total_supply, amount1_min_receive, amount2_min_receive) ==
  LET amount1 == mul_div(lp_token_burn, reserve1, total_supply)
      amount2 == mul_div(lp_token_burn, reserve2, total_supply)
  IN IF ~amount1.ok THEN Err(amount1.err)
     ELSE IF ~amount2.ok THEN Err(amount2.err)
     ELSE IF ~(amount1.v >= amount1_min_receive) THEN Err("InsufficientAmountParam1")
     ELSE IF ~(amount2.v >= amount2_min_receive) THEN Err("InsufficientAmountParam2")
     ELSE Ok(<<amount1.v, amount2.v>>)

\* remove_liquidity_amounts rounding the two amounts up
remove_liquidity_amounts_up(lp_token_burn, reserve1, reserve2, total_supply, amount1_min_receive, amount2_min_receive) ==
  LET amount1 == mul_div_up(lp_token_burn, reserve1, total_supply)
      amount2 == mul_div_up(lp_token_burn, reserve2, total_supply)
  IN IF ~amount1.ok THEN Err(amount1.err)
     ELSE IF ~amount2.ok THEN Err(amount2.err)
     ELSE IF ~(amount1.v # 0 /\ amount1.v >= amount1_min_receive)
          THEN Err("InsufficientAmountParam1")
     ELSE IF ~(amount2.v # 0 /\ amount2.v >= amount2_min_receive)
          THEN Err("InsufficientAmountParam2")
     ELSE Ok(<<amount1.v, amount2.v>>)

\* remove_liquidity_amounts dividing by the supply left after the burn
remove_liquidity_amounts_after_burn(lp_token_burn, reserve1, reserve2, total_supply, amount1_min_receive, amount2_min_receive) ==
  LET amount1 == mul_div(lp_token_burn, reserve1, total_supply - lp_token_burn)
      amount2 == mul_div(lp_token_burn, reserve2, total_supply - lp_token_burn)
  IN IF ~amount1.ok THEN Err(amount1.err)
     ELSE IF ~amount2.ok THEN Err(amount2.err)
     ELSE IF ~(amount1.v # 0 /\ amount1.v >= amount1_min_receive)
          THEN Err("InsufficientAmountParam1")
     ELSE IF ~(amount2.v # 0 /\ amount2.v >= amount2_min_receive)
          THEN Err("InsufficientAmountParam2")
     ELSE Ok(<<amount1.v, amount2.v>>)

\* remove_liquidity_amounts checking amount2 before amount1
remove_liquidity_amounts_second_first(lp_token_burn, reserve1, reserve2, total_supply, amount1_min_receive, amount2_min_receive) ==
  LET amount1 == mul_div(lp_token_burn, reserve1, total_supply)
      amount2 == mul_div(lp_token_burn, reserve2, total_supply)
  IN IF ~amount1.ok THEN Err(amount1.err)
     ELSE IF ~amount2.ok THEN Err(amount2.err)
     ELSE IF ~(amount2.v # 0 /\ amount2.v >= amount2_min_receive)
          THEN Err("InsufficientAmountParam2")
     ELSE IF ~(amount1.v # 0 /\ amount1.v >= amount1_min_receive)
          THEN Err("InsufficientAmountParam1")
     ELSE Ok(<<amount1.v, amount2.v>>)

\* the pro-rata amounts and their checks (lib.rs 416-426)
remove_liquidity_amounts(lp_token_burn, reserve1, reserve2, total_supply, amount1_min_receive, amount2_min_receive) ==
  LET amount1 == mul_div(lp_token_burn, reserve1, total_supply)
      amount2 == mul_div(lp_token_burn, reserve2, total_supply)
  IN IF ~amount1.ok THEN Err(amount1.err)
     ELSE IF ~amount2.ok THEN Err(amount2.err)
     ELSE IF ~(amount1.v # 0 /\ amount1.v >= amount1_min_receive)
          THEN Err("InsufficientAmountParam1")
     ELSE IF ~(amount2.v # 0 /\ amount2.v >= amount2_min_receive)
          THEN Err("InsufficientAmountParam2")
     ELSE Ok(<<amount1.v, amount2.v>>)

\* pool.balance1 = reserve1 - amount1; pool.balance2 = reserve2 - amount2 (lib.rs 433-434)
sub_reserves(pool, amount1, amount2) ==
  [pool EXCEPT !.balance1 = WrapSub(@, amount1), !.balance2 = WrapSub(@, amount2)]

remove_liquidity(s, sender, a1, a2, lp_token_burn, amount1_min_receive, amount2_min_receive, withdraw_to, deadline, block_number) ==
  LET pool_id == get_pool_id(a1, a2)
      asset1 == pool_id[1]
      asset2 == pool_id[2]
      pool == unwrap(s.Pools[pool_id])
      t0 == PoolAssets_transfer(s, pool.lp_token, sender, PalletAccount, lp_token_burn, FALSE)
      reserve1 == pool.balance1
      reserve2 == pool.balance2
      total_supply == total_issuance(t0.s, pool.lp_token)
      amounts == remove_liquidity_amounts(lp_token_burn, reserve1, reserve2, total_supply,
                                          amount1_min_receive, amount2_min_receive)
      amount1 == amounts.v[1]
      amount2 == amounts.v[2]
      b == PoolAssets_burn_from(t0.s, pool.lp_token, PalletAccount, lp_token_burn)
      t1 == transfer(b.s, asset1, PalletAccount, withdraw_to, amount1, FALSE)
      t2 == transfer(t1.s, asset2, PalletAccount, withdraw_to, amount2, FALSE)
      s_ok == try_mutate(t2.s, pool_id, sub_reserves(pool, amount1, amount2))
      Fail(st, e, n) == Ret(st, e, n, 0, 0, 0, NoEvent)
  IN IF ~(lp_token_burn > 0) THEN Fail(s, "ZeroLiquidity", 0)
     ELSE IF ~deadline_ok(deadline, block_number) THEN Fail(s, "DeadlinePassed", 0)
     ELSE IF s.Pools[pool_id] = None THEN Fail(s, "PoolNotFound", 0)
     ELSE IF ~t0.ok THEN Fail(t0.s, t0.err, 0)
     ELSE IF ~amounts.ok THEN Fail(t0.s, amounts.err, 1)
     ELSE IF ~b.ok THEN Fail(b.s, b.err, 1)
     ELSE IF ~t1.ok THEN Fail(t1.s, t1.err, 2)
     ELSE IF ~t2.ok THEN Fail(t2.s, t2.err, 3)
     ELSE Ret(s_ok, "Ok", 4, amount1, amount2, lp_token_burn, <<amount1, amount2>>)

(* ------------------------------------------------------------------ *)
(* the two swaps                                                        *)
(* ------------------------------------------------------------------ *)
\* the reserve the caller pays into and the one paid out of (lib.rs 476-477, 540-541)
swap_reserves(pool, asset1, asset2) ==
  [reserve_in  |-> IF asset1 = pool.asset1 THEN pool.balance1 ELSE pool.balance2,
   reserve_out |-> IF asset2 = pool.asset2 THEN pool.balance2 ELSE pool.balance1]

\* swap_update with the two sides taken for each other
swap_update_sides(pool, send_asset, send_amount, amount1) ==
  IF send_asset = pool.asset1
  THEN [pool EXCEPT !.balance2 = WrapSub(@, send_amount), !.balance1 = WrapAdd(@, amount1)]
  ELSE [pool EXCEPT !.balance1 = WrapSub(@, send_amount), !.balance2 = WrapAdd(@, amount1)]

\* the reserve update of a swap (lib.rs 492-498, 555-561)
swap_update(pool, send_asset, send_amount, amount1) ==
  IF send_asset = pool.asset1
  THEN [pool EXCEPT !.balance1 = WrapSub(@, send_amount), !.balance2 = WrapAdd(@, amount1)]
  ELSE [pool EXCEPT !.balance2 = WrapSub(@, send_amount), !.balance1 = WrapAdd(@, amount1)]

\* lib.rs 484-498 and 547-561: what both swaps do once amount1 and amount2 are known
swap_execute(s, sender, asset1, pool_id, pool, amount1, amount2, send_to, keep_alive, ev) ==
  LET t1 == transfer(s, asset1, sender, PalletAccount, amount1, keep_alive)
      v == validate_swap(asset1, amount2, pool_id, pool.balance1, pool.balance2)
      send_asset == v.v[1]
      send_amount == v.v[2]
      t2 == transfer(t1.s, send_asset, PalletAccount, send_to, send_amount, FALSE)
      s_ok == try_mutate(t2.s, pool_id, swap_update(pool, send_asset, send_amount, amount1))
      Fail(st, e, n) == Ret(st, e, n, 0, 0, 0, NoEvent)
  IN IF ~t1.ok THEN Fail(t1.s, t1.err, 0)
     ELSE IF ~v.ok THEN Fail(t1.s, v.err, 1)
     ELSE IF ~t2.ok THEN Fail(t2.s, t2.err, 1)
     ELSE Ret(s_ok, "Ok", 2, amount1, send_amount, 0, ev)

\* swap_exact_tokens_for_tokens testing amount_out_min after the caller's transfer
swap_exact_tokens_for_tokens_late_check(s, sender, asset1, asset2, amount_in, amount_out_min, send_to, deadline, keep_alive, block_number) ==
  LET pool_id == get_pool_id(asset1, asset2)
      pool == unwrap(s.Pools[pool_id])
      r == swap_reserves(pool, asset1, asset2)
      amount2 == get_amount_out(amount_in, r.reserve_in, r.reserve_out)
      t1 == transfer(s, asset1, sender, PalletAccount, amount_in, keep_alive)
      Fail(st, e, n) == Ret(st, e, n, 0, 0, 0, NoEvent)
  IN IF ~(amount_in > 0 /\ amount_out_min > 0) THEN Fail(s, "ZeroAmount", 0)
     ELSE IF ~deadline_ok(deadline, block_number) THEN Fail(s, "DeadlinePassed", 0)
     ELSE IF s.Pools[pool_id] = None THEN Fail(s, "PoolNotFound", 0)
     ELSE IF ~amount2.ok THEN Fail(s, amount2.err, 0)
     ELSE IF ~t1.ok THEN Fail(t1.s, t1.err, 0)
     ELSE IF ~(amount2.v >= amount_out_min) THEN Fail(t1.s, "InsufficientOutputAmount", 1)
     ELSE swap_execute(s, sender, asset1, pool_id, pool, amount_in, amount2.v, send_to,
                       keep_alive, <<amount_in, amount2.v>>)

swap_exact_tokens_for_tokens(s, sender, asset1, asset2, amount_in, amount_out_min, send_to, deadline, keep_alive, block_number) ==
  LET pool_id == get_pool_id(asset1, asset2)
      pool == unwrap(s.Pools[pool_id])
      r == swap_reserves(pool, asset1, asset2)
      amount1 == amount_in
      amount2 == get_amount_out(amount1, r.reserve_in, r.reserve_out)
      Fail(e) == Ret(s, e, 0, 0, 0, 0, NoEvent)
  IN IF ~(amount_in > 0 /\ amount_out_min > 0) THEN Fail("ZeroAmount")
     ELSE IF ~deadline_ok(deadline, block_number) THEN Fail("DeadlinePassed")
     ELSE IF s.Pools[pool_id] = None THEN Fail("PoolNotFound")
     ELSE IF ~amount2.ok THEN Fail(amount2.err)
     ELSE IF ~(amount2.v >= amount_out_min) THEN Fail("InsufficientOutputAmount")
     ELSE swap_execute(s, sender, asset1, pool_id, pool, amount1, amount2.v, send_to,
                       keep_alive, <<amount_in, amount2.v>>)

\* swap_tokens_for_exact_tokens refusing an input equal to amount_in_max
swap_tokens_for_exact_tokens_strict(s, sender, asset1, asset2, amount_out, amount_in_max, send_to, deadline, keep_alive, block_number) ==
  LET pool_id == get_pool_id(asset1, asset2)
      pool == unwrap(s.Pools[pool_id])
      r == swap_reserves(pool, asset1, asset2)
      amount2 == amount_out
      amount1 == get_amount_in(amount2, r.reserve_in, r.reserve_out)
      Fail(e) == Ret(s, e, 0, 0, 0, 0, NoEvent)
  IN IF ~(amount_out > 0 /\ amount_in_max > 0) THEN Fail("ZeroAmount")
     ELSE IF ~deadline_ok(deadline, block_number) THEN Fail("DeadlinePassed")
     ELSE IF s.Pools[pool_id] = None THEN Fail("PoolNotFound")
     ELSE IF ~amount1.ok THEN Fail(amount1.err)
     ELSE IF ~(amount1.v < amount_in_max) THEN Fail("ExcessiveInputAmount")
     ELSE swap_execute(s, sender, asset1, pool_id, pool, amount1.v, amount2, send_to,
                       keep_alive, <<amount2, amount_out>>)

swap_tokens_for_exact_tokens(s, sender, asset1, asset2, amount_out, amount_in_max, send_to, deadline, keep_alive, block_number) ==
  LET pool_id == get_pool_id(asset1, asset2)
      pool == unwrap(s.Pools[pool_id])
      r == swap_reserves(pool, asset1, asset2)
      amount2 == amount_out
      amount1 == get_amount_in(amount2, r.reserve_in, r.reserve_out)
      Fail(e) == Ret(s, e, 0, 0, 0, 0, NoEvent)
  IN IF ~(amount_out > 0 /\ amount_in_max > 0) THEN Fail("ZeroAmount")
     ELSE IF ~deadline_ok(deadline, block_number) THEN Fail("DeadlinePassed")
     ELSE IF s.Pools[pool_id] = None THEN Fail("PoolNotFound")
     ELSE IF ~amount1.ok THEN Fail(amount1.err)
     ELSE IF ~(amount1.v <= amount_in_max) THEN Fail("ExcessiveInputAmount")
     \* the event carries amount_in: amount2 (lib.rs 569)
     ELSE swap_execute(s, sender, asset1, pool_id, pool, amount1.v, amount2, send_to,
                       keep_alive, <<amount2, amount_out>>)

(* ------------------------------------------------------------------ *)
(* Dispatch: every call runs in a storage layer that is committed on    *)
(* Ok and discarded on Err                                              *)
(* ------------------------------------------------------------------ *)
\* dispatch that keeps what a failed call had written
without_storage_layer(s, out) == out.s

with_storage_layer(s, out) == IF out.res = "Ok" THEN out.s ELSE s

NoCall ==
  [op |-> "none", who |-> PalletAccount, asset1 |-> Native, asset2 |-> Native,
   x |-> 0, y |-> 0, min1 |-> 0, min2 |-> 0, to |-> PalletAccount, deadline |-> 0,
   res |-> "Ok", effects |-> 0, amount1 |-> 0, amount2 |-> 0, lp |-> 0, ev |-> NoEvent,
   partial |-> FALSE, prev |-> "none"]

\* the call as the next state records it: its arguments, its result and outputs, and
\* whether the handler had changed storage when it returned
Record(op, who, asset1, asset2, x, y, min1, min2, to, deadline, out) ==
  [op |-> op, who |-> who, asset1 |-> asset1, asset2 |-> asset2, x |-> x, y |-> y,
   min1 |-> min1, min2 |-> min2, to |-> to, deadline |-> deadline,
   res |-> out.res, effects |-> out.effects, amount1 |-> out.amount1,
   amount2 |-> out.amount2, lp |-> out.lp, ev |-> out.ev,
   partial |-> (out.s # Storage), prev |-> last.op]

Apply(out, rec) ==
  LET s == with_storage_layer(Storage, out) IN
  /\ Pools' = s.Pools
  /\ NextPoolAssetId' = s.NextPoolAssetId
  /\ Balances' = s.Balances
  /\ PoolAssetBalances' = s.PoolAssetBalances
  /\ PoolAssetSupply' = s.PoolAssetSupply
  /\ last' = rec
  /\ calls' = calls + 1
  /\ UNCHANGED <<now, math>>

\* the formulas' arguments and results: amount, reserve_in, reserve_out, then the
\* result of the first formula applied and of the second applied to that result
NoMath ==
  [step |-> "none", amount |-> 0, reserve_in |-> 0, reserve_out |-> 0,
   r1 |-> Err("none"), r2 |-> Err("none")]

Endowment == [w \in Accounts |->
  IF w = "alice" THEN RichEndowment ELSE IF w = "bob" THEN PoorEndowment ELSE 0]

Init ==
  /\ Pools = [id \in PoolIds |-> None]
  /\ NextPoolAssetId = None
  /\ Balances = [a \in Assets |-> Endowment]
  /\ PoolAssetBalances = [id \in PoolAssetIds |-> [w \in Accounts |-> 0]]
  /\ PoolAssetSupply = [id \in PoolAssetIds |-> 0]
  /\ now = 1
  /\ calls = 0
  /\ last = NoCall
  /\ math = NoMath

(* ------------------------------------------------------------------ *)
(* The calls the model makes.  A call is a record of arguments; the     *)
(* families below vary the amounts in full and the other arguments one  *)
(* at a time around a plain call (recipient = caller, no minimum,       *)
(* deadline = now, keep_alive off).                                     *)
(* ------------------------------------------------------------------ *)
Args(sender, pair, x, y, min1, min2, to, deadline, keep_alive) ==
  [sender |-> sender, a1 |-> pair[1], a2 |-> pair[2], x |-> x, y |-> y,
   min1 |-> min1, min2 |-> min2, to |-> to, deadline |-> deadline,
   keep_alive |-> keep_alive]

\* both orders of the first pool and the second pool; pairs that name no pool
FirstPool == {<<Native, 1>>, <<1, Native>>}
GoodPairs == FirstPool \cup {<<Native, 2>>}
BadPairs == {<<1, 2>>, <<1, 1>>, <<2, Native>>}
Pos == 1..MaxAmount

\* plain calls: every caller, pool and pair of amounts
Plain(X, Y) ==
  {Args(s, p, x, y, 0, 0, s, now, FALSE) : s \in Users, p \in GoodPairs, x \in X, y \in Y}
\* a zero amount, a pair that names no pool
Odd(Y) ==
  {Args("alice", p, x, y, 0, 0, "alice", now, FALSE) :
     p \in {<<Native, 1>>}, x \in {0, MaxAmount}, y \in Y \cup {0}}
  \cup {Args("alice", p, MaxAmount, y, 0, 0, "alice", now, FALSE) : p \in BadPairs, y \in Y}
\* another recipient
ToOthers(X, Y) ==
  {Args(st[1], <<Native, 1>>, x, y, 0, 0, st[2], now, FALSE) :
     st \in {u \in Users \X Accounts : u[1] # u[2]}, x \in X, y \in Y}
\* minimum amounts
WithMins(X, Y) ==
  {Args("alice", p, x, y, m[1], m[2], "alice", now, FALSE) :
     p \in FirstPool, x \in X, y \in Y,
     m \in {<<MaxAmount, 0>>, <<0, MaxAmount>>}}
\* a deadline in the past
Late(Y) ==
  {Args("alice", p, x, y, 0, 0, "alice", now - 1, FALSE) :
     p \in {<<Native, 1>>, <<1, 2>>}, x \in {0, MaxAmount}, y \in Y \cup {0}}
\* keep_alive on
KeepAlive(X, Y) ==
  {Args("bob", p, x, y, 0, 0, "bob", now, TRUE) : p \in FirstPool, x \in X, y \in Y}

AddLiquidityArgs ==
  Plain(Pos, Pos) \cup Odd({MaxAmount}) \cup ToOthers(Pos, Pos) \cup WithMins(Pos, Pos)
  \cup Late({MaxAmount}) \cup KeepAlive(Pos, Pos)
  \cup {Args("alice", <<Native, 1>>, ExampleDeposit[1], ExampleDeposit[2], 0, 0, "alice",
            now, FALSE)}

\* the share tokens the example deposit mints to its depositor
ExampleShares == integer_sqrt(ExampleDeposit[1] * ExampleDeposit[2]) - MIN_LIQUIDITY

RemoveLiquidityArgs ==
  Plain(Pos, {0}) \cup Odd({0}) \cup ToOthers(Pos, {0}) \cup WithMins(Pos, {0})
  \cup Late({0})
  \cup {Args("alice", <<Native, 1>>, ExampleShares, 0, 0, 0, "alice", now, FALSE)}

SwapArgs ==
  Plain(Pos, Pos) \cup Odd({MaxAmount}) \cup ToOthers(Pos, Pos) \cup Late({MaxAmount})
  \cup KeepAlive(Pos, Pos)

\* a behaviour is followed up to its first failed call: a failed call leaves storage
\* as it was, so what can follow it is what can follow the state before it
Running == calls < MaxCalls /\ last.res = "Ok"

CreatePool ==
  /\ Running
  /\ \E sender \in Users, a1 \in Assets, a2 \in Assets :
       LET out == create_pool(Storage, sender, a1, a2) IN
       Apply(out, Record("create_pool", sender, a1, a2, 0, 0, 0, 0, sender, now, out))

AddLiquidity ==
  /\ Running
  /\ \E c \in AddLiquidityArgs :
       LET out == add_liquidity(Storage, c.sender, c.a1, c.a2, c.x, c.y, c.min1, c.min2,
                                c.to, c.deadline, c.keep_alive, now) IN
       Apply(out, Record("add_liquidity", c.sender, c.a1, c.a2, c.x, c.y, c.min1,
                         c.min2, c.to, c.deadline, out))

RemoveLiquidity ==
  /\ Running
  /\ \E c \in RemoveLiquidityArgs :
       LET out == remove_liquidity(Storage, c.sender, c.a1, c.a2, c.x, c.min1, c.min2,
                                   c.to, c.deadline, now) IN
       Apply(out, Record("remove_liquidity", c.sender, c.a1, c.a2, c.x, 0, c.min1,
                         c.min2, c.to, c.deadline, out))

SwapExactTokensForTokens ==
  /\ Running
  /\ \E c \in SwapArgs :
       LET out == swap_exact_tokens_for_tokens(Storage, c.sender, c.a1, c.a2, c.x, c.y,
                                               c.to, c.deadline, c.keep_alive, now) IN
       Apply(out, Record("swap_exact_tokens_for_tokens", c.sender, c.a1, c.a2, c.x, c.y,
                         0, 0, c.to, c.deadline, out))

SwapTokensForExactTokens ==
  /\ Running
  /\ \E c \in SwapArgs :
       LET out == swap_tokens_for_exact_tokens(Storage, c.sender, c.a1, c.a2, c.x, c.y,
                                               c.to, c.deadline, c.keep_alive, now) IN
       Apply(out, Record("swap_tokens_for_exact_tokens", c.sender, c.a1, c.a2, c.x, c.y,
                         0, 0, c.to, c.deadline, out))

\* the next block
Tick ==
  /\ Running
  /\ now < MaxBlock
  /\ now' = now + 1
  /\ calls' = calls + 1
  /\ last' = [NoCall EXCEPT !.op = "on_initialize", !.prev = last.op]
  /\ UNCHANGED <<Pools, NextPoolAssetId, Balances, PoolAssetBalances, PoolAssetSupply,
                 math>>

Next ==
  \/ CreatePool
  \/ AddLiquidity
  \/ RemoveLiquidity
  \/ SwapExactTokensForTokens
  \/ SwapTokensForExactTokens
  \/ Tick

Spec == Init /\ [][Next]_vars

(* ------------------------------------------------------------------ *)
(* The formulas on their own: the arguments are drawn at the start, the *)
(* actions apply get_amount_in and get_amount_out to them               *)
(* ------------------------------------------------------------------ *)
\* small values, and values whose products reach the top of the wide domain
MathValues == (0..MathMax) \cup {900, 1000}

MathInit ==
  /\ Pools = [id \in PoolIds |-> None]
  /\ NextPoolAssetId = None
  /\ Balances = [a \in Assets |-> Endowment]
  /\ PoolAssetBalances = [id \in PoolAssetIds |-> [w \in Accounts |-> 0]]
  /\ PoolAssetSupply = [id \in PoolAssetIds |-> 0]
  /\ now = 1
  /\ calls = 0
  /\ last = NoCall
  /\ \E x \in MathValues, reserve_in \in MathValues, reserve_out \in MathValues :
       math = [NoMath EXCEPT !.step = "input", !.amount = x,
                             !.reserve_in = reserve_in, !.reserve_out = reserve_out]

\* get_amount_in(amount, reserve_in, reserve_out)
QuoteAmountIn ==
  /\ math.step = "input"
  /\ math' = [math EXCEPT !.step = "get_amount_in",
                !.r1 = get_amount_in(math.amount, math.reserve_in, math.reserve_out)]
  /\ UNCHANGED <<Pools, NextPoolAssetId, Balances, PoolAssetBalances, PoolAssetSupply,
                 now, calls, last>>

\* get_amount_out(amount, reserve_in, reserve_out)
QuoteAmountOut ==
  /\ math.step = "input"
  /\ math' = [math EXCEPT !.step = "get_amount_out",
                !.r1 = get_amount_out(math.amount, math.reserve_in, math.reserve_out)]
  /\ UNCHANGED <<Pools, NextPoolAssetId, Balances, PoolAssetBalances, PoolAssetSupply,
                 now, calls, last>>

\* the amount get_amount_in asked for, fed to get_amount_out on the same reserves
RoundTrip ==
  /\ math.step = "get_amount_in"
  /\ math.r1.ok
  /\ math' = [math EXCEPT !.step = "round_trip",
                !.r2 = get_amount_out(math.r1.v, math.reserve_in, math.reserve_out)]
  /\ UNCHANGED <<Pools, NextPoolAssetId, Balances, PoolAssetBalances, PoolAssetSupply,
                 now, calls, last>>

MathNext ==
  \/ QuoteAmountIn
  \/ QuoteAmountOut
  \/ RoundTrip

SpecMath == MathInit /\ [][MathNext]_vars

(* ------------------------------------------------------------------ *)
(* Swaps on large amounts: alice holds the whole issuance of both       *)
(* assets and has created the pool <<Native, 1>>, which has its first   *)
(* deposit or none yet; the actions are the two swaps, with amounts up  *)
(* to the top of the balance type                                       *)
(* ------------------------------------------------------------------ *)
WideEndowment == [w \in Accounts |-> IF w = "alice" THEN MaxBalance ELSE 0]

WideGenesis ==
  [Pools |-> [id \in PoolIds |-> None], NextPoolAssetId |-> None,
   Balances |-> [a \in Assets |-> WideEndowment],
   PoolAssetBalances |-> [id \in PoolAssetIds |-> [w \in Accounts |-> 0]],
   PoolAssetSupply |-> [id \in PoolAssetIds |-> 0]]

\* first deposits: reserves whose products with an amount reach the top of the wide
\* domain, a reserve whose thousandfold does, and a reserve at the top of the balance type
WideDeposits == {<<1000, 1000>>, <<1100, 1400>>, <<1000000, 8>>, <<1, MaxBalance>>}
WideAmounts == {1, 7, 100, 700, 1100, 1400, 74000, MaxBalance}
\* bounds on the other amount: around what 100 gets from, and what 100 costs on,
\* reserves of 1000 each
WideAmountOutMin == {1, 90, 91}
WideAmountInMax == {111, 112, MaxBalance}

\* create_pool(Native, 1), then add_liquidity(Native, 1, deposit), both by alice
WideCreated == create_pool(WideGenesis, "alice", Native, 1)
WideFunded(deposit) ==
  add_liquidity(WideCreated.s, "alice", Native, 1, deposit[1], deposit[2], 0, 0, "alice",
                1, FALSE, 1)

WideInit ==
  /\ WideCreated.res = "Ok"
  /\ \/ \E deposit \in WideDeposits :
          /\ WideFunded(deposit).res = "Ok"
          /\ Pools = [id \in PoolIds |-> WideFunded(deposit).s.Pools[id]]
          /\ NextPoolAssetId = WideFunded(deposit).s.NextPoolAssetId
          /\ Balances = [a \in Assets |-> WideFunded(deposit).s.Balances[a]]
          /\ PoolAssetBalances =
               [id \in PoolAssetIds |-> WideFunded(deposit).s.PoolAssetBalances[id]]
          /\ PoolAssetSupply =
               [id \in PoolAssetIds |-> WideFunded(deposit).s.PoolAssetSupply[id]]
     \/ /\ Pools = [id \in PoolIds |-> WideCreated.s.Pools[id]]
        /\ NextPoolAssetId = WideCreated.s.NextPoolAssetId
        /\ Balances = [a \in Assets |-> WideCreated.s.Balances[a]]
        /\ PoolAssetBalances =
             [id \in PoolAssetIds |-> WideCreated.s.PoolAssetBalances[id]]
        /\ PoolAssetSupply =
             [id \in PoolAssetIds |-> WideCreated.s.PoolAssetSupply[id]]
  /\ now = 1
  /\ calls = 0
  /\ last = NoCall
  /\ math = NoMath

\* alice's swaps on the pool, in both directions, to herself or to the pallet's
\* account, with a bound from `limits` on the other amount
WideSwapArgs(limits) ==
  {Args("alice", p, x, limit, 0, 0, to, now, FALSE) :
     p \in FirstPool, x \in WideAmounts, limit \in limits,
     to \in {"alice", PalletAccount}}

WideRunning == calls < WideCalls /\ last.res = "Ok"

WideSwapExactTokensForTokens ==
  /\ WideRunning
  /\ \E c \in WideSwapArgs(WideAmountOutMin) :
       LET out == swap_exact_tokens_for_tokens(Storage, c.sender, c.a1, c.a2, c.x, c.y,
                                               c.to, c.deadline, c.keep_alive, now) IN
       Apply(out, Record("swap_exact_tokens_for_tokens", c.sender, c.a1, c.a2, c.x, c.y,
                         0, 0, c.to, c.deadline, out))

WideSwapTokensForExactTokens ==
  /\ WideRunning
  /\ \E c \in WideSwapArgs(WideAmountInMax) :
       LET out == swap_tokens_for_exact_tokens(Storage, c.sender, c.a1, c.a2, c.x, c.y,
                                               c.to, c.deadline, c.keep_alive, now) IN
       Apply(out, Record("swap_tokens_for_exact_tokens", c.sender, c.a1, c.a2, c.x, c.y,
                         0, 0, c.to, c.deadline, out))

WideNext ==
  \/ WideSwapExactTokensForTokens
  \/ WideSwapTokensForExactTokens

SpecWide == WideInit /\ [][WideNext]_vars

(* ------------------------------------------------------------------ *)
(* Properties                                                           *)
(* ------------------------------------------------------------------ *)
SwapOps == {"swap_exact_tokens_for_tokens", "swap_tokens_for_exact_tokens"}
LiquidityOps == {"add_liquidity", "remove_liquidity"}
StorageVars == <<Pools, NextPoolAssetId, Balances, PoolAssetBalances, PoolAssetSupply>>

\* the pool a recorded call addresses
PoolIdOf(c) == get_pool_id(c.asset1, c.asset2)
\* a successful call of one of the operations `ops`
Succeeded(c, ops) == c.op \in ops /\ c.res = "Ok"
\* the reserve of asset `a` in a pool entry
ReserveOf(pool, a) == IF a = pool.asset1 THEN pool.balance1 ELSE pool.balance2
Registered(id) == Pools[id] # None

\* C1: a successful swap of either variant adds what it took from the caller to the
\* input-side reserve, takes what it sent to the recipient from the output-side
\* reserve, and sends strictly less than the output-side reserve held before.
C1_SwapConservation ==
  [][Succeeded(last', SwapOps) =>
       LET id == PoolIdOf(last')
           before == unwrap(Pools[id])
           after == unwrap(Pools'[id])
           asset_in == last'.asset1
           asset_out == last'.asset2
           taken == Balances[asset_in][last'.who] - Balances'[asset_in][last'.who]
           sent == Balances'[asset_out][last'.to] - Balances[asset_out][last'.to]
       IN /\ taken = last'.amount1
          /\ last'.to # PalletAccount => sent = last'.amount2
          /\ ReserveOf(after, asset_in) = ReserveOf(before, asset_in) + taken
          /\ ReserveOf(after, asset_out) = ReserveOf(before, asset_out) - last'.amount2
          /\ last'.amount2 < ReserveOf(before, asset_out)
  ]_vars

\* C1 witness: an exact-out swap paying a registered asset in and Native out has
\* succeeded, after an exact-in swap
C1_Witness ==
  /\ Succeeded(last, {"swap_tokens_for_exact_tokens"})
  /\ last.prev = "swap_exact_tokens_for_tokens"
  /\ last.asset1 = 1 /\ last.asset2 = Native
  /\ last.amount1 > 0 /\ last.amount2 > 0

\* C2: a successful swap of either variant never lowers reserve1 * reserve2.
C2_ProductNeverDecreases ==
  [][Succeeded(last', SwapOps) =>
       LET id == PoolIdOf(last')
           before == unwrap(Pools[id])
           after == unwrap(Pools'[id])
       IN after.balance1 * after.balance2 >= before.balance1 * before.balance2
  ]_vars

\* C2 witness: an exact-in swap right after an exact-out swap, in the other direction
C2_Witness ==
  /\ Succeeded(last, {"swap_exact_tokens_for_tokens"})
  /\ last.prev = "swap_tokens_for_exact_tokens"
  /\ last.asset1 = Native
\* the arguments the round-trip claim is about: reserves > 0 and 0 < X < reserve_out
RoundTripCase ==
  /\ math.step = "round_trip"
  /\ math.reserve_in > 0 /\ math.reserve_out > 0
  /\ 0 < math.amount /\ math.amount < math.reserve_out

\* C3 as claimed: whenever get_amount_in(X, reserve_in, reserve_out) succeeds with a,
\* get_amount_out(a, reserve_in, reserve_out) succeeds with a result >= X.
C3_RoundTripAlwaysSucceeds ==
  RoundTripCase => math.r2.ok /\ math.r2.v >= math.amount

\* C3 as amended: whenever get_amount_in(X, reserve_in, reserve_out) succeeds with a,
\* get_amount_out(a, reserve_in, reserve_out) either succeeds with a result >= X or
\* fails with Overflow.
C3_RoundTrip ==
  RoundTripCase =>
    \/ math.r2.ok /\ math.r2.v >= math.amount
    \/ ~math.r2.ok /\ math.r2.err = "Overflow"

\* C3 witness: a round trip that succeeded on a quote above one unit
C3_Witness ==
  RoundTripCase /\ math.r1.v > 1 /\ math.r2.ok /\ math.r2.v >= math.amount

\* C4: a successful add_liquidity on a pool with both reserves zero uses exactly the
\* desired amounts, mints floor(sqrt(amount1 * amount2)) - MIN_LIQUIDITY share tokens
\* to mint_to and MIN_LIQUIDITY to the pallet's account, and sets the reserves to
\* (amount1, amount2).
C4_FirstDeposit ==
  [][(/\ Succeeded(last', {"add_liquidity"})
      /\ unwrap(Pools[PoolIdOf(last')]).balance1 = 0
      /\ unwrap(Pools[PoolIdOf(last')]).balance2 = 0) =>
       LET id == PoolIdOf(last')
           after == unwrap(Pools'[id])
           token == after.lp_token
           root == last'.lp + MIN_LIQUIDITY
           minted(w) == PoolAssetBalances'[token][w] - PoolAssetBalances[token][w]
       IN /\ last'.amount1 = last'.x /\ last'.amount2 = last'.y
          /\ root * root <= last'.x * last'.y
          /\ last'.x * last'.y < (root + 1) * (root + 1)
          /\ IF last'.to = PalletAccount
             THEN minted(PalletAccount) = last'.lp + MIN_LIQUIDITY
             ELSE minted(last'.to) = last'.lp /\ minted(PalletAccount) = MIN_LIQUIDITY
          /\ PoolAssetSupply'[token] = PoolAssetSupply[token] + last'.lp + MIN_LIQUIDITY
          /\ after.balance1 = last'.x /\ after.balance2 = last'.y
  ]_vars

\* C4 witness: the deposit of (1000, 4000) has minted 1999 to alice and 1 to the pallet
C4_Witness ==
  /\ Succeeded(last, {"add_liquidity"})
  /\ last.x = 1000 /\ last.y = 4000 /\ last.lp = 1999
  /\ LET pool == unwrap(Pools[PoolIdOf(last)]) IN
       /\ pool.balance1 = 1000 /\ pool.balance2 = 4000
       /\ PoolAssetBalances[pool.lp_token]["alice"] = 1999
       /\ PoolAssetBalances[pool.lp_token][PalletAccount] = 1
       /\ PoolAssetSupply[pool.lp_token] = 2000

\* C5: a successful remove_liquidity burning s share tokens on a pool with supply S
\* and reserves (R1, R2) pays (floor(s*R1/S), floor(s*R2/S)) to withdraw_to, lowers
\* the reserves by those amounts and the supply by s.
C5_ProportionalWithdrawal ==
  [][Succeeded(last', {"remove_liquidity"}) =>
       LET id == PoolIdOf(last')
           before == unwrap(Pools[id])
           after == unwrap(Pools'[id])
           token == before.lp_token
           s == last'.x
           S == PoolAssetSupply[token]
           paid(a) == Balances'[a][last'.to] - Balances[a][last'.to]
       IN /\ last'.amount1 = (s * before.balance1) \div S
          /\ last'.amount2 = (s * before.balance2) \div S
          /\ last'.to # PalletAccount =>
               /\ paid(before.asset1) = last'.amount1
               /\ paid(before.asset2) = last'.amount2
          /\ after.balance1 = before.balance1 - last'.amount1
          /\ after.balance2 = before.balance2 - last'.amount2
          /\ PoolAssetSupply'[token] = S - s
          /\ PoolAssetBalances'[token][last'.who] = PoolAssetBalances[token][last'.who] - s
  ]_vars

\* C5 witness: a withdrawal after a swap, with two different amounts, one rounded down
C5_Witness ==
  /\ Succeeded(last, {"remove_liquidity"})
  /\ last.prev \in SwapOps
  /\ last.amount1 # last.amount2
  /\ LET pool == unwrap(Pools[PoolIdOf(last)])
         S == PoolAssetSupply[pool.lp_token] + last.x
     IN (last.x * (pool.balance1 + last.amount1)) % S # 0

\* a zero amount among the arguments the zero check of the call looks at
ZeroArgument(c) == IF c.op = "add_liquidity" THEN c.x = 0 \/ c.y = 0 ELSE c.x = 0
ZeroError(c) == IF c.op = "add_liquidity" THEN "WrongDesiredAmount" ELSE "ZeroLiquidity"

\* C6 as claimed: every add_liquidity or remove_liquidity call with deadline < now
\* fails with DeadlinePassed, whatever the other arguments.
C6_LateAlwaysDeadlinePassed ==
  (last.op \in LiquidityOps /\ last.deadline < now) => last.res = "DeadlinePassed"

\* C6 as amended: an add_liquidity or remove_liquidity call with deadline < now changes
\* no state; it fails with DeadlinePassed when its amounts are non-zero (whether or not
\* the pool exists), and with WrongDesiredAmount (add_liquidity) or ZeroLiquidity
\* (remove_liquidity) when an amount is zero.
C6_Deadline ==
  [][(last'.op \in LiquidityOps /\ last'.deadline < now) =>
       /\ last'.res = IF ZeroArgument(last') THEN ZeroError(last') ELSE "DeadlinePassed"
       /\ ~last'.partial
       /\ UNCHANGED StorageVars
  ]_vars

\* C6 witness: a late add_liquidity with non-zero amounts on a pair that has no pool
\* has failed with DeadlinePassed
C6_Witness ==
  /\ last.op = "add_liquidity" /\ last.deadline < now
  /\ last.x > 0 /\ last.y > 0
  /\ ~Registered(PoolIdOf(last))
  /\ last.res = "DeadlinePassed"

\* C7: a registered pool whose reserves are both zero has no share tokens issued.
C7_ZeroReservesZeroSupply ==
  \A id \in PoolIds :
    (Registered(id) /\ unwrap(Pools[id]).balance1 = 0 /\ unwrap(Pools[id]).balance2 = 0)
      => PoolAssetSupply[unwrap(Pools[id]).lp_token] = 0

\* C7 witness: a pool with zero reserves beside a pool that was funded and from which
\* liquidity has just been removed
C7_Witness ==
  /\ Succeeded(last, {"remove_liquidity"})
  /\ unwrap(Pools[PoolIdOf(last)]).balance1 > 0
  /\ \E id \in PoolIds :
       Registered(id) /\ unwrap(Pools[id]).balance1 = 0 /\ unwrap(Pools[id]).balance2 = 0

\* C8: a share token's supply grows only in an add_liquidity step in which both
\* reserves of its pool grow, shrinks only in a remove_liquidity step in which both
\* shrink, and create_pool and the swaps leave every supply as it was.
C8_SupplyFollowsReserves ==
  [][\A id \in PoolIds : Registered(id)' =>
       LET after == unwrap(Pools'[id])
           before == unwrap(Pools[id])
           token == after.lp_token
       IN /\ PoolAssetSupply'[token] > PoolAssetSupply[token] =>
               /\ last'.op = "add_liquidity" /\ Registered(id)
               /\ after.balance1 > before.balance1 /\ after.balance2 > before.balance2
          /\ PoolAssetSupply'[token] < PoolAssetSupply[token] =>
               /\ last'.op = "remove_liquidity" /\ Registered(id)
               /\ after.balance1 < before.balance1 /\ after.balance2 < before.balance2
          /\ last'.op \in SwapOps \cup {"create_pool"} =>
               PoolAssetSupply' = PoolAssetSupply
  ]_vars

\* C8 witness: share tokens have been burnt on a pool whose reserves a swap had made
\* unequal
C8_Witness ==
  /\ Succeeded(last, {"remove_liquidity"})
  /\ last.prev \in SwapOps
  /\ last.amount1 > 0 /\ last.amount2 > 0

\* C9: a call that returns an error leaves the pools, the allocator, every balance of
\* every asset and every share token's balances and supply as they were.
C9_FailedCallsChangeNothing ==
  [][last'.res # "Ok" => UNCHANGED StorageVars]_vars

\* C9 witness: an add_liquidity has failed after its transfers had been executed
C9_Witness ==
  /\ last.op = "add_liquidity"
  /\ last.res = "InsufficientLiquidityMinted"
  /\ last.effects >= 2 /\ last.partial

\* the next share-token id
NextId == IF NextPoolAssetId = None THEN initial_value ELSE unwrap(NextPoolAssetId)

C11_PoolExists ==
  /\ [](\A a \in Assets, b \in Assets : a # b => get_pool_id(a, b) = get_pool_id(b, a))
  /\ [][(/\ last'.op = "create_pool"
         /\ last'.asset1 # last'.asset2
         /\ Registered(PoolIdOf(last'))) =>
          /\ last'.res = "PoolExists"
          /\ ~last'.partial
          /\ Pools' = Pools
          /\ NextPoolAssetId' = NextPoolAssetId
     ]_vars

\* C11 witness: create_pool(1, Native) has failed with PoolExists on the pool that
\* create_pool(Native, 1) registered
C11_Witness ==
  /\ last.op = "create_pool" /\ last.res = "PoolExists"
  /\ last.asset1 = 1 /\ last.asset2 = Native
  /\ last.prev = "create_pool"
  /\ Registered(<<Native, 1>>) /\ ~Registered(<<1, Native>>)

\* C12: every registered pool is filed under <<Native, a>> with a a registered asset,
\* its entry holds asset1 = Native and asset2 = a, and create_pool(a, a) fails with
\* EqualAssets.
C12_PoolShape ==
  /\ \A id \in PoolIds : Registered(id) =>
       /\ id[1] = Native /\ id[2] # Native
       /\ unwrap(Pools[id]).asset1 = id[1] /\ unwrap(Pools[id]).asset2 = id[2]
  /\ (last.op = "create_pool" /\ last.asset1 = last.asset2) => last.res = "EqualAssets"

\* C12 witness: with both pools registered, create_pool(Native, Native) has failed
\* with EqualAssets
C12_Witness ==
  /\ last.op = "create_pool" /\ last.res = "EqualAssets"
  /\ last.asset1 = Native /\ last.asset2 = Native
  /\ Registered(<<Native, 1>>) /\ Registered(<<Native, 2>>)

\* C13: create_pool(a, b) with a # b fails with PoolMustContainNativeCurrency when
\* neither a nor b is the native asset, and with no such error when one of them is,
\* in whichever position.
C13_NativeSide ==
  (last.op = "create_pool" /\ last.asset1 # last.asset2) =>
    (last.res = "PoolMustContainNativeCurrency"
       <=> (last.asset1 # Native /\ last.asset2 # Native))

\* C13 witness: after create_pool(2, Native) has succeeded, create_pool(2, 1) has
\* failed with PoolMustContainNativeCurrency
C13_Witness ==
  /\ last.op = "create_pool" /\ last.res = "PoolMustContainNativeCurrency"
  /\ last.asset1 = 2 /\ last.asset2 = 1
  /\ Registered(<<Native, 2>>) /\ unwrap(Pools[<<Native, 2>>]).lp_token = 0

\* what a call on a pair with no pool returns: the error of the first check it fails
UnregisteredError(c) ==
  IF c.op \in SwapOps
  THEN IF c.x = 0 \/ c.y = 0 THEN "ZeroAmount"
       ELSE IF c.deadline < now THEN "DeadlinePassed" ELSE "PoolNotFound"
  ELSE IF ZeroArgument(c) THEN ZeroError(c)
       ELSE IF c.deadline < now THEN "DeadlinePassed" ELSE "PoolNotFound"

\* a registered pool stays registered with its owner, share token and assets, and a
\* new entry appears only under the id a successful create_pool addresses
RegistryStep ==
  \A id \in PoolIds :
    /\ Registered(id) =>
         /\ Pools'[id] # None
         /\ unwrap(Pools'[id]).owner = unwrap(Pools[id]).owner
         /\ unwrap(Pools'[id]).lp_token = unwrap(Pools[id]).lp_token
         /\ unwrap(Pools'[id]).asset1 = unwrap(Pools[id]).asset1
         /\ unwrap(Pools'[id]).asset2 = unwrap(Pools[id]).asset2
    /\ (~Registered(id) /\ Pools'[id] # None) =>
         Succeeded(last', {"create_pool"}) /\ PoolIdOf(last') = id

\* C14 as claimed: pools persist with their owner, share token and assets, only
\* create_pool registers, and every add_liquidity, remove_liquidity and swap on a pair
\* with no pool fails with PoolNotFound and creates nothing.
C14_UnregisteredAlwaysPoolNotFound ==
  [][/\ RegistryStep
     /\ (last'.op \in LiquidityOps \cup SwapOps /\ ~Registered(PoolIdOf(last'))) =>
          last'.res = "PoolNotFound" /\ Pools' = Pools
  ]_vars

\* C14 as amended: as above, but a call on a pair with no pool fails with the error of
\* the first check it fails: its zero-amount error, then DeadlinePassed, then
\* PoolNotFound.
C14_Registry ==
  [][/\ RegistryStep
     /\ (last'.op \in LiquidityOps \cup SwapOps /\ ~Registered(PoolIdOf(last'))) =>
          /\ last'.res = UnregisteredError(last')
          /\ ~last'.partial
          /\ Pools' = Pools
  ]_vars

\* C14 witness: beside a pool that was funded and has had liquidity removed, a swap
\* on the pair <<Native, 2>>, which has no pool, has failed with PoolNotFound
C14_Witness ==
  /\ last.op \in SwapOps /\ last.res = "PoolNotFound"
  /\ last.asset1 = Native /\ last.asset2 = 2
  /\ last.prev = "remove_liquidity"
  /\ Registered(<<Native, 1>>) /\ ~Registered(<<Native, 2>>)

\* a * b is above the top of the wide domain (decided without forming the product)
Exceeds(a, b) == a > 0 /\ b > MaxU128 \div a

\* the output formula amount_in * (1000 - Fee) * reserve_out
\* / (reserve_in * 1000 + amount_in * (1000 - Fee)): whether a product or the sum of
\* it leaves the wide domain, and its value in the integers
AmountOutExceeds(amount_in, reserve_in, reserve_out) ==
  \/ Exceeds(amount_in, 1000 - Fee)
  \/ Exceeds(amount_in * (1000 - Fee), reserve_out)
  \/ Exceeds(reserve_in, 1000)
  \/ reserve_in * 1000 + amount_in * (1000 - Fee) > MaxU128

ExactAmountOut(amount_in, reserve_in, reserve_out) ==
  (amount_in * (1000 - Fee) * reserve_out)
    \div (reserve_in * 1000 + amount_in * (1000 - Fee))

\* the input formula reserve_in * amount_out * 1000
\* / ((reserve_out - amount_out) * (1000 - Fee)) + 1, for amount_out < reserve_out
AmountInExceeds(amount_out, reserve_in, reserve_out) ==
  \/ Exceeds(reserve_in, amount_out)
  \/ Exceeds(reserve_in * amount_out, 1000)
  \/ Exceeds(reserve_out - amount_out, 1000 - Fee)

ExactAmountIn(amount_out, reserve_in, reserve_out) ==
  (reserve_in * amount_out * 1000) \div ((reserve_out - amount_out) * (1000 - Fee)) + 1

\* the step has moved exactly amount_in into and amount_out out of the addressed
\* pool's reserves, in the integers, within the balance type
ExactSwap(amount_in, amount_out) ==
  LET id == PoolIdOf(last')
      before == unwrap(Pools[id])
      after == unwrap(Pools'[id])
      reserve_in == ReserveOf(before, last'.asset1)
      reserve_out == ReserveOf(before, last'.asset2)
  IN /\ last'.amount1 = amount_in /\ last'.amount2 = amount_out
     /\ reserve_in + amount_in <= MaxBalance /\ amount_out <= reserve_out
     /\ ReserveOf(after, last'.asset1) = reserve_in + amount_in
     /\ ReserveOf(after, last'.asset2) = reserve_out - amount_out

\* C15: a swap on large amounts and non-zero reserves fails with Overflow when a
\* product, the sum or the narrowing of its formula leaves its integer type, and
\* otherwise (its slippage bound met and the caller holding the input) succeeds with
\* the value of the formula in the integers and reserves moved by exactly the two
\* amounts.
C15_OverflowSafety ==
  [][last'.op \in SwapOps =>
       LET pool == unwrap(Pools[PoolIdOf(last')])
           reserve_in == ReserveOf(pool, last'.asset1)
           reserve_out == ReserveOf(pool, last'.asset2)
           x == last'.x
           holds(a) == Balances[last'.asset1][last'.who] >= a
           Overflowed == last'.res = "Overflow" /\ UNCHANGED StorageVars
       IN IF reserve_in = 0 \/ reserve_out = 0 THEN last'.res # "Ok"
          ELSE IF last'.op = "swap_exact_tokens_for_tokens"
            THEN IF AmountOutExceeds(x, reserve_in, reserve_out) THEN Overflowed
                 ELSE LET amount_out == ExactAmountOut(x, reserve_in, reserve_out) IN
                      IF amount_out > MaxBalance THEN Overflowed
                      ELSE IF amount_out < last'.y
                           THEN last'.res = "InsufficientOutputAmount"
                      ELSE /\ holds(x) => last'.res = "Ok"
                           /\ last'.res = "Ok" => ExactSwap(x, amount_out)
            ELSE IF x >= reserve_out THEN last'.res # "Ok" /\ UNCHANGED StorageVars
                 ELSE IF AmountInExceeds(x, reserve_in, reserve_out) THEN Overflowed
                 ELSE LET amount_in == ExactAmountIn(x, reserve_in, reserve_out) IN
                      IF amount_in > MaxBalance THEN Overflowed
                      ELSE IF amount_in > last'.y
                           THEN last'.res = "ExcessiveInputAmount"
                      ELSE /\ holds(amount_in) => last'.res = "Ok"
                           /\ last'.res = "Ok" => ExactSwap(amount_in, x)
  ]_vars

\* C15 witness: on reserves a swap has moved, a second swap of 700 for which the
\* product amount * 997 * reserve is in the upper half of the wide domain has
\* succeeded
C15_Witness ==
  /\ Succeeded(last, {"swap_exact_tokens_for_tokens"})
  /\ last.prev \in SwapOps
  /\ last.x = 700
  /\ last.x * (1000 - Fee) * (ReserveOf(unwrap(Pools[PoolIdOf(last)]), last.asset2)
                              + last.amount2) > MaxU128 \div 2

\* C16: swap_tokens_for_exact_tokens on a pool with both reserves non-zero, asked for
\* an amount_out at or above the output reserve (its amounts non-zero, its deadline
\* not passed), fails with InsufficientLiquidity.
C16_AmountOutAboveReserve ==
  [][(/\ last'.op = "swap_tokens_for_exact_tokens"
      /\ last'.x > 0 /\ last'.y > 0 /\ last'.deadline >= now
      /\ Registered(PoolIdOf(last'))
      /\ unwrap(Pools[PoolIdOf(last')]).balance1 > 0
      /\ unwrap(Pools[PoolIdOf(last')]).balance2 > 0
      /\ last'.x >= ReserveOf(unwrap(Pools[PoolIdOf(last')]), last'.asset2)) =>
       last'.res = "InsufficientLiquidity"
  ]_vars

\* the failures of the callers' bounds on amounts
SlippageErrors ==
  {"InsufficientAmountParam1", "InsufficientAmountParam2", "OptimalAmountLessThanDesired",
   "InsufficientLiquidityMinted", "InsufficientOutputAmount", "ExcessiveInputAmount"}

\* C17 as claimed: when a call fails with a slippage error, none of its transfer, mint
\* or burn steps has been executed.
C17_SlippageBeforeEffects ==
  last.res \in SlippageErrors => last.effects = 0 /\ ~last.partial

\* C17 as amended: a slippage error is raised before any transfer, mint or burn step
\* of the call, except InsufficientLiquidityMinted, which add_liquidity raises after
\* its two asset transfers (and after the MIN_LIQUIDITY mint on a first deposit), and
\* InsufficientAmountParam1/2 of remove_liquidity, raised after the share tokens have
\* been transferred to the pallet's account.
C17_SlippageOrder ==
  last.res \in SlippageErrors =>
    IF last.res = "InsufficientLiquidityMinted"
    THEN /\ last.op = "add_liquidity"
         /\ last.effects = IF PoolAssetSupply[unwrap(Pools[PoolIdOf(last)]).lp_token] = 0
                           THEN 3 ELSE 2
         /\ last.partial
    ELSE IF last.op = "remove_liquidity"
    THEN last.effects = 1 /\ last.partial
    ELSE last.effects = 0 /\ ~last.partial

\* C17 witness: a remove_liquidity has failed with InsufficientAmountParam1 after the
\* share tokens had been transferred
C17_Witness ==
  /\ last.op = "remove_liquidity" /\ last.res = "InsufficientAmountParam1"
  /\ last.min1 > 0
  /\ last.effects = 1 /\ last.partial

\* C18: the SwapExecuted event of a successful swap carries the amount taken from the
\* caller as amount_in and the amount sent to the recipient as amount_out.
C18_EventAmounts ==
  Succeeded(last, SwapOps) => last.ev = <<last.amount1, last.amount2>>

\* C19: a call addressed to one pool id leaves the entry of every other id and the
\* supply of every other pool's share token as they were, whether it succeeds or fails.
C19_OtherPoolsUntouched ==
  [][\A id \in PoolIds : id # PoolIdOf(last') =>
       /\ Pools'[id] = Pools[id]
       /\ Registered(id) =>
            PoolAssetSupply'[unwrap(Pools[id]).lp_token]
              = PoolAssetSupply[unwrap(Pools[id]).lp_token]
  ]_vars

\* C19 witness: with the pool <<Native, 1>> funded, an add_liquidity on <<Native, 2>>
\* has succeeded
C19_Witness ==
  /\ Succeeded(last, {"add_liquidity"})
  /\ PoolIdOf(last) = <<Native, 2>>
  /\ Registered(<<Native, 1>>)
  /\ unwrap(Pools[<<Native, 1>>]).balance1 > 0
  /\ PoolAssetSupply[unwrap(Pools[<<Native, 1>>]).lp_token] > 0

\* a pool that holds liquidity: at least MIN_LIQUIDITY share tokens issued, at least
\* MIN_LIQUIDITY of them with the pallet's account, both reserves positive
Funded(id) ==
  /\ Registered(id)
  /\ PoolAssetSupply[unwrap(Pools[id]).lp_token] >= MIN_LIQUIDITY
  /\ PoolAssetBalances[unwrap(Pools[id]).lp_token][PalletAccount] >= MIN_LIQUIDITY
  /\ unwrap(Pools[id]).balance1 > 0
  /\ unwrap(Pools[id]).balance2 > 0

\* C20: from a pool's first successful deposit on, after every step at least
\* MIN_LIQUIDITY share tokens are issued, the pallet's account holds at least
\* MIN_LIQUIDITY of them and both reserves are positive; and no withdrawal or swap
\* takes more from a reserve than it holds.
C20_DustStays ==
  [][/\ \A id \in PoolIds :
          (Funded(id) \/ (Succeeded(last', {"add_liquidity"}) /\ PoolIdOf(last') = id))
            => Funded(id)'
     /\ Succeeded(last', {"remove_liquidity"}) =>
          /\ last'.amount1 <= unwrap(Pools[PoolIdOf(last')]).balance1
          /\ last'.amount2 <= unwrap(Pools[PoolIdOf(last')]).balance2
     /\ Succeeded(last', SwapOps) =>
          last'.amount2 <= ReserveOf(unwrap(Pools[PoolIdOf(last')]), last'.asset2)
  ]_vars

\* C20 witness: after a swap, a withdrawal has burnt every share token but the
\* MIN_LIQUIDITY of the pallet's account, and both reserves are still positive
C20_Witness ==
  /\ Succeeded(last, {"remove_liquidity"})
  /\ last.prev \in SwapOps
  /\ Funded(PoolIdOf(last))
  /\ PoolAssetSupply[unwrap(Pools[PoolIdOf(last)]).lp_token] = MIN_LIQUIDITY

\* the two amounts a withdrawal of `burn` share tokens computes on a pool entry whose
\* share token has supply `supply`
ProRata(pool, burn, supply) ==
  <<(burn * pool.balance1) \div supply, (burn * pool.balance2) \div supply>>
\* a remove_liquidity call that gets as far as its two amounts: a non-zero burn, a
\* deadline not passed, a registered pool and a caller holding the share tokens
ReachesAmounts(c) ==
  /\ c.op = "remove_liquidity" /\ c.x > 0 /\ c.deadline >= now
  /\ Registered(PoolIdOf(c))
  /\ PoolAssetBalances[unwrap(Pools[PoolIdOf(c)]).lp_token][c.who] >= c.x

\* C21: a remove_liquidity call that gets as far as its two amounts fails with
\* InsufficientAmountParam1 when amount1 is zero or below amount1_min_receive,
\* otherwise with InsufficientAmountParam2 when amount2 is zero or below
\* amount2_min_receive, and otherwise succeeds; every successful remove_liquidity
\* pays amount1 > 0 and amount2 > 0, each at least its minimum.
C21_WithdrawalMinimums ==
  [][/\ ReachesAmounts(last') =>
          LET pool == unwrap(Pools[PoolIdOf(last')])
              amounts == ProRata(pool, last'.x, PoolAssetSupply[pool.lp_token])
              short1 == amounts[1] = 0 \/ amounts[1] < last'.min1
              short2 == amounts[2] = 0 \/ amounts[2] < last'.min2
          IN /\ short1 => last'.res = "InsufficientAmountParam1"
             /\ ~short1 /\ short2 => last'.res = "InsufficientAmountParam2"
             /\ ~short1 /\ ~short2 =>
                  /\ last'.res = "Ok"
                  /\ last'.amount1 = amounts[1] /\ last'.amount2 = amounts[2]
     /\ Succeeded(last', {"remove_liquidity"}) =>
          /\ ReachesAmounts(last')
          /\ last'.amount1 > 0 /\ last'.amount1 >= last'.min1
          /\ last'.amount2 > 0 /\ last'.amount2 >= last'.min2
  ]_vars

\* C21 witness: a withdrawal whose two amounts both fall short (amount1 zero, amount2
\* below its minimum) has failed on the first
C21_Witness ==
  /\ last.op = "remove_liquidity" /\ last.res = "InsufficientAmountParam1"
  /\ ReachesAmounts(last)
  /\ LET pool == unwrap(Pools[PoolIdOf(last)])
         amounts == ProRata(pool, last.x, PoolAssetSupply[pool.lp_token])
     IN amounts[1] = 0 /\ 0 < amounts[2] /\ amounts[2] < last.min2

\* the reserves a recorded swap reads: those of its input and of its output asset
SwapReserves(c) ==
  LET pool == unwrap(Pools[PoolIdOf(c)])
  IN <<ReserveOf(pool, c.asset1), ReserveOf(pool, c.asset2)>>

\* C22: on reserves reserve_in > 0 and reserve_out > 0, with no product or sum leaving
\* the wide domain, get_amount_out(amount_in, reserve_in, reserve_out) is
\* floor(amount_in * (1000 - fee) * reserve_out
\*       / (reserve_in * 1000 + amount_in * (1000 - fee))),
\* and swap_exact_tokens_for_tokens fails with InsufficientOutputAmount exactly when
\* that value is below amount_out_min, sending that value when it succeeds; with a
\* reserve of zero both fail with InsufficientLiquidity.
C22_AmountOut ==
  [][last'.op = "swap_exact_tokens_for_tokens" =>
       LET reserve_in == SwapReserves(last')[1]
           reserve_out == SwapReserves(last')[2]
           x == last'.x
       IN IF reserve_in = 0 \/ reserve_out = 0
          THEN /\ get_amount_out(x, reserve_in, reserve_out) = Err("InsufficientLiquidity")
               /\ last'.res = "InsufficientLiquidity"
          ELSE IF AmountOutExceeds(x, reserve_in, reserve_out) THEN TRUE
          ELSE LET amount_out == ExactAmountOut(x, reserve_in, reserve_out) IN
               /\ get_amount_out(x, reserve_in, reserve_out) = try_into(amount_out)
               /\ amount_out <= MaxBalance =>
                    /\ last'.res = "InsufficientOutputAmount" <=> amount_out < last'.y
                    /\ last'.res = "Ok" => last'.amount2 = amount_out
  ]_vars

\* C22 witness: on reserves of 1000 each, a swap of 100 asking for at least 90 has
\* sent 90
C22_Witness ==
  /\ Succeeded(last, {"swap_exact_tokens_for_tokens"})
  /\ calls = 1
  /\ last.x = 100 /\ last.y = 90 /\ last.amount2 = 90
  /\ SwapReserves(last) = <<1000 + 100, 1000 - 90>>

\* C23: on reserves reserve_in > 0 and 0 < amount_out < reserve_out, with no product
\* leaving the wide domain, get_amount_in(amount_out, reserve_in, reserve_out) is
\* floor(reserve_in * amount_out * 1000 / ((reserve_out - amount_out) * (1000 - fee))) + 1,
\* and swap_tokens_for_exact_tokens fails with ExcessiveInputAmount exactly when that
\* value exceeds amount_in_max, charging the caller exactly that value when it
\* succeeds.
C23_AmountIn ==
  [][last'.op = "swap_tokens_for_exact_tokens" =>
       LET reserve_in == SwapReserves(last')[1]
           reserve_out == SwapReserves(last')[2]
           x == last'.x
           charged == Balances[last'.asset1][last'.who] - Balances'[last'.asset1][last'.who]
       IN IF ~(reserve_in > 0 /\ 0 < x /\ x < reserve_out) THEN TRUE
          ELSE IF AmountInExceeds(x, reserve_in, reserve_out) THEN TRUE
          ELSE LET amount_in == ExactAmountIn(x, reserve_in, reserve_out) IN
               /\ get_amount_in(x, reserve_in, reserve_out) = try_into(amount_in)
               /\ amount_in <= MaxBalance =>
                    /\ last'.res = "ExcessiveInputAmount" <=> amount_in > last'.y
                    /\ last'.res = "Ok" => last'.amount1 = amount_in /\ charged = amount_in
  ]_vars

\* C23 witness: on reserves of 1000 each, a swap for exactly 100 with amount_in_max
\* equal to the 112 it costs has succeeded
C23_Witness ==
  /\ Succeeded(last, {"swap_tokens_for_exact_tokens"})
  /\ calls = 1
  /\ last.x = 100 /\ last.y = 112 /\ last.amount1 = 112
  /\ SwapReserves(last) = <<1000 + 112, 1000 - 100>>

\* an add_liquidity call that gets as far as its amounts: two non-zero desired
\* amounts, a deadline not passed and a registered pool
ReachesDeposit(c) ==
  /\ c.op = "add_liquidity" /\ c.x > 0 /\ c.y > 0 /\ c.deadline >= now
  /\ Registered(PoolIdOf(c))
\* floor(amount * reserve2 / reserve1)
Quoted(amount, reserve1, reserve2) == (amount * reserve2) \div reserve1
AmountErrors == {"InsufficientAmountParam1", "InsufficientAmountParam2"}
\* both reserves of the pool are non-zero
NonZeroReserves(id) == unwrap(Pools[id]).balance1 > 0 /\ unwrap(Pools[id]).balance2 > 0

\* C24: on a pool with non-zero reserves add_liquidity computes
\* quoted2 = floor(amount1_desired * reserve2 / reserve1); if quoted2 <= amount2_desired
\* it fails with InsufficientAmountParam2 when quoted2 < amount2_min and otherwise uses
\* (amount1_desired, quoted2); if not, with
\* quoted1 = floor(amount2_desired * reserve1 / reserve2), it fails with
\* InsufficientAmountParam1 when quoted1 < amount1_min and otherwise uses
\* (quoted1, amount2_desired). Every successful add_liquidity takes from the depositor
\* the amounts it used, and neither exceeds the desired amount.
C24_DepositAmounts ==
  [][/\ (ReachesDeposit(last') /\ NonZeroReserves(PoolIdOf(last'))) =>
          LET pool == unwrap(Pools[PoolIdOf(last')])
              x == last'.x
              y == last'.y
              quoted2 == Quoted(x, pool.balance1, pool.balance2)
              quoted1 == Quoted(y, pool.balance2, pool.balance1)
              uses(amount1, amount2) ==
                /\ last'.res \notin AmountErrors
                /\ last'.res = "Ok" => last'.amount1 = amount1 /\ last'.amount2 = amount2
          IN IF quoted2 <= y
             THEN IF quoted2 < last'.min2 THEN last'.res = "InsufficientAmountParam2"
                  ELSE uses(x, quoted2)
             ELSE IF quoted1 < last'.min1 THEN last'.res = "InsufficientAmountParam1"
                  ELSE uses(quoted1, y)
     /\ Succeeded(last', {"add_liquidity"}) =>
          LET pool == unwrap(Pools[PoolIdOf(last')])
              taken(a) == Balances[a][last'.who] - Balances'[a][last'.who]
          IN /\ last'.amount1 <= last'.x /\ last'.amount2 <= last'.y
             /\ taken(pool.asset1) = last'.amount1
             /\ taken(pool.asset2) = last'.amount2
  ]_vars

\* C24 witness: a deposit on a funded pool has used less than amount1_desired and the
\* whole of amount2_desired
C24_Witness ==
  /\ Succeeded(last, {"add_liquidity"})
  /\ last.prev # "create_pool"
  /\ 0 < last.amount1 /\ last.amount1 < last.x /\ last.amount2 = last.y

\* the amounts a deposit of (x, y) settles on, on a pool entry
DepositAmounts(pool, x, y) ==
  IF pool.balance1 = 0 /\ pool.balance2 = 0 THEN <<x, y>>
  ELSE IF Quoted(x, pool.balance1, pool.balance2) <= y
       THEN <<x, Quoted(x, pool.balance1, pool.balance2)>>
       ELSE <<Quoted(y, pool.balance2, pool.balance1), y>>
\* min(floor(a1 * S / R1), floor(a2 * S / R2))
LaterShares(pool, amounts, S) ==
  Min((amounts[1] * S) \div pool.balance1, (amounts[2] * S) \div pool.balance2)
\* the share amount of a deposit is at most MIN_LIQUIDITY: for a first deposit,
\* floor(sqrt(a1 * a2)) - MIN_LIQUIDITY <= MIN_LIQUIDITY
SharesShort(pool, amounts, S) ==
  IF S = 0 THEN amounts[1] * amounts[2] < (2 * MIN_LIQUIDITY + 1) * (2 * MIN_LIQUIDITY + 1)
  ELSE LaterShares(pool, amounts, S) <= MIN_LIQUIDITY

\* C25: an add_liquidity call whose computed share amount is at most MIN_LIQUIDITY
\* never succeeds, and fails with InsufficientLiquidityMinted once its two transfers
\* are done; a successful add_liquidity mints more than MIN_LIQUIDITY share tokens to
\* mint_to, and on a pool with supply S > 0 and reserves (R1, R2), with amounts
\* (a1, a2), it mints exactly min(floor(a1 * S / R1), floor(a2 * S / R2)) to mint_to
\* and nothing else.
C25_LaterDeposit ==
  [][ReachesDeposit(last') =>
       LET pool == unwrap(Pools[PoolIdOf(last')])
           token == pool.lp_token
           S == PoolAssetSupply[token]
           amounts == DepositAmounts(pool, last'.x, last'.y)
           minted(w) == PoolAssetBalances'[token][w] - PoolAssetBalances[token][w]
       IN /\ SharesShort(pool, amounts, S) =>
               /\ last'.res # "Ok"
               /\ last'.effects >= 2 => last'.res = "InsufficientLiquidityMinted"
          /\ last'.res = "InsufficientLiquidityMinted" => SharesShort(pool, amounts, S)
          /\ last'.res = "Ok" =>
               /\ last'.lp > MIN_LIQUIDITY
               /\ minted(last'.to) >= last'.lp
               /\ S > 0 =>
                    /\ last'.lp = LaterShares(pool, <<last'.amount1, last'.amount2>>, S)
                    /\ minted(last'.to) = last'.lp
                    /\ PoolAssetSupply'[token] = S + last'.lp
                    /\ \A w \in Accounts \ {last'.to} : minted(w) = 0
  ]_vars

\* C25 witness: a deposit on a pool that a swap has moved off its first reserves has
\* minted the smaller of two different sides
C25_Witness ==
  /\ Succeeded(last, {"add_liquidity"})
  /\ last.prev \in SwapOps
  /\ LET pool == unwrap(Pools[PoolIdOf(last)])
         S == PoolAssetSupply[pool.lp_token] - last.lp
         R1 == pool.balance1 - last.amount1
         R2 == pool.balance2 - last.amount2
     IN /\ R1 > 0 /\ R2 > 0
        /\ (last.amount1 * S) \div R1 # (last.amount2 * S) \div R2
        /\ last.lp = Min((last.amount1 * S) \div R1, (last.amount2 * S) \div R2)

\* C26: for every registered pool, the square of the share-token supply is at most
\* reserve1 * reserve2.
C26_SupplySquared ==
  \A id \in PoolIds :
    Registered(id) =>
      LET pool == unwrap(Pools[id])
          S == PoolAssetSupply[pool.lp_token]
      IN S * S <= pool.balance1 * pool.balance2

\* C26 witness: after a deposit, a swap and a withdrawal, in this order or another,
\* the pool still holds share tokens and the product is strictly above their square
C26_Witness ==
  /\ Succeeded(last, {"remove_liquidity"})
  /\ last.prev \in SwapOps
  /\ LET pool == unwrap(Pools[PoolIdOf(last)])
         S == PoolAssetSupply[pool.lp_token]
     IN S > MIN_LIQUIDITY /\ S * S < pool.balance1 * pool.balance2

\* the reserves of asset `a`: for Native the sum over the pools, for a registered
\* asset the reserve of its one pool
ReservesIn(P, a) ==
  LET r(id) == IF P[id] = None THEN 0 ELSE ReserveOf(unwrap(P[id]), a)
  IN IF a = Native THEN r(<<Native, 1>>) + r(<<Native, 2>>) ELSE r(<<Native, a>>)
\* what the pallet's account holds of asset `a` above the reserves
Surplus(a) == Balances[a][PalletAccount] - ReservesIn(Pools, a)
\* what a recorded call has paid of asset `a` to the pallet's own account
PaidToPallet(c, a) ==
  IF c.res # "Ok" \/ c.to # PalletAccount THEN 0
  ELSE IF c.op = "remove_liquidity"
       THEN IF a = PoolIdOf(c)[1] THEN c.amount1
            ELSE IF a = PoolIdOf(c)[2] THEN c.amount2 ELSE 0
  ELSE IF c.op \in SwapOps /\ a = c.asset2 THEN c.amount2
  ELSE 0

\* C27 as claimed: in every state the pallet account's balance of each registered
\* asset equals the reserve of that asset's pool, and its native balance equals the
\* sum of the native reserves of all pools.
C27_BalancesEqualReserves == \A a \in Assets : Surplus(a) = 0

\* C27 as amended: the pallet account's balance of each asset is never below the
\* reserves of that asset (for Native, their sum over all pools), so every pay-out is
\* covered; the two are equal before the first call, and a call changes their
\* difference only when a swap or a withdrawal names the pallet's account as its
\* recipient, by the amount it pays out.
C27_ReservesCovered ==
  [][\A a \in Assets :
       /\ calls = 0 => Surplus(a) = 0
       /\ Surplus(a)' = Surplus(a) + PaidToPallet(last', a)
       /\ Surplus(a)' >= 0
  ]_vars

\* C27 witness: after a withdrawal and a swap, each paid to the pallet's own account,
\* that account holds more than the reserves of both assets of the pool
C27_Witness ==
  /\ Succeeded(last, SwapOps) /\ last.to = PalletAccount
  /\ last.prev = "remove_liquidity"
  /\ Surplus(Native) > 0 /\ Surplus(1) > 0
  /\ Surplus(last.asset2) > last.amount2

\* C28: when a successful add_liquidity that took (a1, a2) and minted s share tokens
\* is followed at once by a successful remove_liquidity on the same pool burning
\* exactly s, the withdrawal pays (b1, b2) with b1 <= a1 and b2 <= a2.
C28_DepositThenWithdraw ==
  [][(/\ Succeeded(last, {"add_liquidity"})
      /\ Succeeded(last', {"remove_liquidity"})
      /\ PoolIdOf(last') = PoolIdOf(last)
      /\ last'.x = last.lp) =>
       /\ last'.amount1 <= last.amount1
       /\ last'.amount2 <= last.amount2
  ]_vars

\* C28 witness: the example deposit has been withdrawn in full by its depositor right
\* after it was made, for less than was deposited of both assets
C28_Witness ==
  /\ Succeeded(last, {"remove_liquidity"})
  /\ last.prev = "add_liquidity"
  /\ last.x = ExampleShares
  /\ LET pool == unwrap(Pools[PoolIdOf(last)])
     IN /\ PoolAssetSupply[pool.lp_token] = MIN_LIQUIDITY
        /\ 0 < last.amount1 /\ last.amount1 < ExampleDeposit[1]
        /\ 0 < last.amount2 /\ last.amount2 < ExampleDeposit[2]
        /\ pool.balance1 = ExampleDeposit[1] - last.amount1
        /\ pool.balance2 = ExampleDeposit[2] - last.amount2

\* C29: no call returns OptimalAmountLessThanDesired: on reserves > 0 and desired
\* amounts > 0, whenever the quote of amount1_desired is above amount2_desired, the
\* quote of amount2_desired is at most amount1_desired.
C29_OptimalUnreachable ==
  [][/\ last'.res # "OptimalAmountLessThanDesired"
     /\ (ReachesDeposit(last') /\ NonZeroReserves(PoolIdOf(last'))) =>
          LET pool == unwrap(Pools[PoolIdOf(last')])
              amount2_optimal == quote(last'.x, pool.balance1, pool.balance2)
              amount1_optimal == quote(last'.y, pool.balance2, pool.balance1)
          IN /\ amount2_optimal.ok /\ amount1_optimal.ok
             /\ amount2_optimal.v > last'.y => amount1_optimal.v <= last'.x
  ]_vars

\* C29 witness: a deposit on a funded pool whose quote of amount1_desired was above
\* amount2_desired has passed the test of the second quote and succeeded
C29_Witness ==
  /\ Succeeded(last, {"add_liquidity"})
  /\ LET pool == unwrap(Pools[PoolIdOf(last)])
         R1 == pool.balance1 - last.amount1
         R2 == pool.balance2 - last.amount2
     IN /\ R1 > 0 /\ R2 > 0
        /\ Quoted(last.x, R1, R2) > last.y
        /\ Quoted(last.y, R2, R1) <= last.x
        /\ last.amount1 = Quoted(last.y, R2, R1)
====
